---- MODULE Spec2Model ----
(***************************************************************************)
(* Recurring schedules of the finance tracker: the form schemas that       *)
(* validate a (frequency, custom_value) pair, the fetch of recurring rows  *)
(* from the store, and the occurrence generators of the Benefits, Payday   *)
(* and Expenses pages (getNextDates / getFutureDates); the six-month       *)
(* projection of the Projections page; the add-funds buttons of the Goals  *)
(* page; and the routes of the application with their auth guard.          *)
(*                                                                         *)
(* A JavaScript Date is modelled by its local calendar fields              *)
(* [y, m, d] with m the 0-based month of getMonth(); Date objects are      *)
(* mutable and live in a heap, variables hold references into it.          *)
(***************************************************************************)
EXTENDS Integers, Sequences, FiniteSets, TLC

VARIABLES pc, page, data, dateStr, freq, customVal, count, i, date, dates, heap,
          formPc, formPage, formValues, formErrors, inserted,
          queries, expenses, benefits, recurringBills, now, projection, response,
          created, goal, shown, updates, refetch, clicks,
          history, user, loading, screen

genVars == <<pc, page, data, dateStr, freq, customVal, count, i, date, dates, heap>>
formVars == <<formPc, formPage, formValues, formErrors, inserted>>
projVars == <<queries, expenses, benefits, recurringBills, now, projection, response>>
goalVars == <<created, goal, shown, updates, refetch, clicks>>
routeVars == <<history, user, loading, screen>>
vars == <<pc, page, data, dateStr, freq, customVal, count, i, date, dates, heap,
          formPc, formPage, formValues, formErrors, inserted,
          queries, expenses, benefits, recurringBills, now, projection, response,
          created, goal, shown, updates, refetch, clicks,
          history, user, loading, screen>>

----------------------------------------------------------------------------
(* Bounds of the model *)

MaxCount == 5
MaxYear == 2024
MaxCustom == 32
MaxBills == 1
MaxBenefits == 1
MaxExpenses == 1
MaxClicks == 3
MaxHistory == 2

FirstYear == MaxYear - 1

----------------------------------------------------------------------------
(* Values *)

Pages == {"Benefits", "Payday", "Expenses"}

Frequency == {"WEEKLY", "FORTNIGHTLY", "MONTHLY", "YEARLY", "EVERY_X_DAYS", "SPECIFIC_DAY"}

\* An optional number (customVal?: number): <<>> is undefined, <<n>> is n.
Undefined == <<>>

Num(n) == <<n>>

\* JavaScript truthiness of an optional number: undefined and 0 are falsy.
Truthy(v) == v # Undefined /\ v[1] # 0

Min(a, b) == IF a < b THEN a ELSE b

----------------------------------------------------------------------------
(* The JavaScript Date built-in, on local calendar fields *)

IsLeapYear(y) == (y % 4 = 0 /\ y % 100 # 0) \/ y % 400 = 0

\* Days of month m (0-based) of year y.
DaysIn(y, m) ==
  IF m = 1 THEN (IF IsLeapYear(y) THEN 29 ELSE 28)
  ELSE IF m \in {3, 5, 8, 10} THEN 30 ELSE 31

RECURSIVE NormDay(_, _, _)
\* Day overflow and underflow of the Date constructor, m already in 0..11.
NormDay(y, m, d) ==
  IF d < 1
    THEN LET pm == IF m = 0 THEN 11 ELSE m - 1
             py == IF m = 0 THEN y - 1 ELSE y
         IN NormDay(py, pm, d + DaysIn(py, pm))
  ELSE IF d > DaysIn(y, m)
    THEN LET nm == IF m = 11 THEN 0 ELSE m + 1
             ny == IF m = 11 THEN y + 1 ELSE y
         IN NormDay(ny, nm, d - DaysIn(y, m))
  ELSE [y |-> y, m |-> m, d |-> d]

\* new Date(y, m, d): out-of-range months and days carry over.
MakeDate(y, m, d) == NormDay(y + (m \div 12), m % 12, d)

\* Date.prototype.setDate(d) on the value dt.
setDate(dt, d) == MakeDate(dt.y, dt.m, d)

\* new Date("YYYY-MM-DD"): the string's month is 1-based, getMonth() 0-based.
ParseDate(s) == [y |-> s.y, m |-> s.mo - 1, d |-> s.d]

----------------------------------------------------------------------------
(* date-fns *)

\* Variant: the day of the month is set to the amount, not moved by it.
addDays_fromMonthStart(dt, amount) == MakeDate(dt.y, dt.m, amount)

\* addDays: clone, then setDate(getDate() + amount).
addDays(dt, amount) == setDate(dt, dt.d + amount)

addWeeks(dt, amount) == addDays(dt, amount * 7)

\* Variant: the native setMonth, whose day carries over into the next month.
addMonths_overflow(dt, amount) == MakeDate(dt.y, dt.m + amount, dt.d)

\* addMonths: the last day of the desired month when the day does not fit.
addMonths(dt, amount) ==
  LET endOfDesiredMonth == MakeDate(dt.y, dt.m + amount + 1, 0)
      daysInMonth == endOfDesiredMonth.d
  IN IF dt.d >= daysInMonth
       THEN endOfDesiredMonth
       ELSE MakeDate(endOfDesiredMonth.y, endOfDesiredMonth.m, dt.d)

\* Variant: the native setFullYear, where 29 February becomes 1 March.
addYears_overflow(dt, amount) == MakeDate(dt.y + amount, dt.m, dt.d)

addYears(dt, amount) == addMonths(dt, amount * 12)

----------------------------------------------------------------------------
(* Inputs *)

AnchorDays == {1, 15, 28, 29, 30, 31}

\* Date strings of an <input type="date">: valid calendar dates only.
DateStrings ==
  {s \in [y : FirstYear..MaxYear, mo : 1..12, d : AnchorDays] : s.d <= DaysIn(s.y, s.mo - 1)}

CustomValues == {Undefined} \cup {Num(n) : n \in -1..MaxCustom}

\* (frequency, custom_value) pairs a stored row can carry: the store enforces
\* nothing about custom_value.
Policies ==
  ({"WEEKLY", "FORTNIGHTLY", "MONTHLY", "YEARLY"} \X {Undefined, Num(0)})
    \cup ({"EVERY_X_DAYS", "SPECIFIC_DAY"} \X CustomValues)

Rows ==
  {[date |-> s, frequency |-> p[1], custom_value |-> p[2]] : s \in DateStrings, p \in Policies}

NoDateStr == [y |-> 0, mo |-> 0, d |-> 0]

----------------------------------------------------------------------------
(* Occurrence generators: one loop iteration after dates.push(date).       *)
(* The result is the new heap and the new value of the variable `date`.    *)

\* Variant: the running Date object is changed in place, no fresh object.
New_inPlace(h, dt) == [heap |-> [h EXCEPT ![Len(h)] = dt], date |-> Len(h)]

\* The helpers of date-fns return a fresh Date object.
New(h, dt) == [heap |-> Append(h, dt), date |-> Len(h) + 1]

\* Variant: setDate(customVal) without the clip to the month's length.
SpecificDay_noClip(h, r, customV) ==
  LET n == New(h, addMonths(h[r], 1))
  IN [heap |-> [n.heap EXCEPT ![n.date] = setDate(n.heap[n.date], customV[1])],
      date |-> n.date]

\* Variant: the month and the day are set on the running Date object itself.
SpecificDay_inPlace(h, r, customV) ==
  LET dt == addMonths(h[r], 1)
      daysInMonth == MakeDate(dt.y, dt.m + 1, 0).d
  IN [heap |-> [h EXCEPT ![r] = setDate(dt, Min(customV[1], daysInMonth))], date |-> r]

\* SPECIFIC_DAY branch: date = addMonths(date, 1), then setDate in place.
SpecificDay(h, r, customV) ==
  LET n == New(h, addMonths(h[r], 1))
      dt == n.heap[n.date]
      daysInMonth == MakeDate(dt.y, dt.m + 1, 0).d
  IN [heap |-> [n.heap EXCEPT ![n.date] = setDate(dt, Min(customV[1], daysInMonth))],
      date |-> n.date]

\* Variant: a month taken as 30 days.
Benefits_advance_thirtyDays(h, r, fr, customV) ==
  IF fr = "WEEKLY" THEN New(h, addWeeks(h[r], 1))
  ELSE IF fr = "FORTNIGHTLY" THEN New(h, addWeeks(h[r], 2))
  ELSE IF fr = "MONTHLY" THEN New(h, addDays(h[r], 30))
  ELSE IF fr = "YEARLY" THEN New(h, addYears(h[r], 1))
  ELSE IF fr = "EVERY_X_DAYS" /\ Truthy(customV) THEN New(h, addDays(h[r], customV[1]))
  ELSE IF fr = "SPECIFIC_DAY" /\ Truthy(customV) THEN SpecificDay(h, r, customV)
  ELSE [heap |-> h, date |-> r]

Benefits_advance(h, r, fr, customV) ==
  IF fr = "WEEKLY" THEN New(h, addWeeks(h[r], 1))
  ELSE IF fr = "FORTNIGHTLY" THEN New(h, addWeeks(h[r], 2))
  ELSE IF fr = "MONTHLY" THEN New(h, addMonths(h[r], 1))
  ELSE IF fr = "YEARLY" THEN New(h, addYears(h[r], 1))
  ELSE IF fr = "EVERY_X_DAYS" /\ Truthy(customV) THEN New(h, addDays(h[r], customV[1]))
  ELSE IF fr = "SPECIFIC_DAY" /\ Truthy(customV) THEN SpecificDay(h, r, customV)
  ELSE [heap |-> h, date |-> r]

\* Variant: FORTNIGHTLY steps by one week.
Payday_advance_oneWeek(h, r, fr, customV) ==
  IF fr = "WEEKLY" THEN New(h, addWeeks(h[r], 1))
  ELSE IF fr = "FORTNIGHTLY" THEN New(h, addWeeks(h[r], 1))
  ELSE IF fr = "MONTHLY" THEN New(h, addMonths(h[r], 1))
  ELSE IF fr = "YEARLY" THEN New(h, addYears(h[r], 1))
  ELSE IF fr = "EVERY_X_DAYS" /\ Truthy(customV) THEN New(h, addDays(h[r], customV[1]))
  ELSE IF fr = "SPECIFIC_DAY" /\ Truthy(customV) THEN SpecificDay(h, r, customV)
  ELSE [heap |-> h, date |-> r]

Payday_advance(h, r, fr, customV) ==
  IF fr = "WEEKLY" THEN New(h, addWeeks(h[r], 1))
  ELSE IF fr = "FORTNIGHTLY" THEN New(h, addWeeks(h[r], 2))
  ELSE IF fr = "MONTHLY" THEN New(h, addMonths(h[r], 1))
  ELSE IF fr = "YEARLY" THEN New(h, addYears(h[r], 1))
  ELSE IF fr = "EVERY_X_DAYS" /\ Truthy(customV) THEN New(h, addDays(h[r], customV[1]))
  ELSE IF fr = "SPECIFIC_DAY" /\ Truthy(customV) THEN SpecificDay(h, r, customV)
  ELSE [heap |-> h, date |-> r]

\* Variant: this copy sets the day without the clip to the month's length.
Expenses_advance_noClip(h, r, fr, customV) ==
  IF fr = "WEEKLY" THEN New(h, addWeeks(h[r], 1))
  ELSE IF fr = "FORTNIGHTLY" THEN New(h, addWeeks(h[r], 2))
  ELSE IF fr = "MONTHLY" THEN New(h, addMonths(h[r], 1))
  ELSE IF fr = "YEARLY" THEN New(h, addYears(h[r], 1))
  ELSE IF fr = "EVERY_X_DAYS" /\ Truthy(customV) THEN New(h, addDays(h[r], customV[1]))
  ELSE IF fr = "SPECIFIC_DAY" /\ Truthy(customV) THEN SpecificDay_noClip(h, r, customV)
  ELSE [heap |-> h, date |-> r]

Expenses_advance(h, r, fr, customV) ==
  IF fr = "WEEKLY" THEN New(h, addWeeks(h[r], 1))
  ELSE IF fr = "FORTNIGHTLY" THEN New(h, addWeeks(h[r], 2))
  ELSE IF fr = "MONTHLY" THEN New(h, addMonths(h[r], 1))
  ELSE IF fr = "YEARLY" THEN New(h, addYears(h[r], 1))
  ELSE IF fr = "EVERY_X_DAYS" /\ Truthy(customV) THEN New(h, addDays(h[r], customV[1]))
  ELSE IF fr = "SPECIFIC_DAY" /\ Truthy(customV) THEN SpecificDay(h, r, customV)
  ELSE [heap |-> h, date |-> r]

Advance(p, h, r, fr, customV) ==
  IF p = "Benefits" THEN Benefits_advance(h, r, fr, customV)
  ELSE IF p = "Payday" THEN Payday_advance(h, r, fr, customV)
  ELSE Expenses_advance(h, r, fr, customV)

\* The default of the parameter count: 3 in Benefits and Expenses, 4 in Payday.
Benefits_defaultCount == 3
Payday_defaultCount == 4
Expenses_defaultCount == 3

DefaultCount(p) ==
  IF p = "Benefits" THEN Benefits_defaultCount
  ELSE IF p = "Payday" THEN Payday_defaultCount
  ELSE Expenses_defaultCount

RECURSIVE Loop(_, _, _, _, _)
\* n iterations of the generator's loop from the state st.
Loop(p, st, fr, customV, n) ==
  IF n = 0 THEN st
  ELSE LET a == Advance(p, st.heap, st.date, fr, customV)
       IN Loop(p, [heap |-> a.heap, date |-> a.date, dates |-> Append(st.dates, st.date)],
               fr, customV, n - 1)

\* The generator as a function: the calendar values of the returned dates.
GetDates(p, s, fr, customV, n) ==
  LET st == Loop(p, [heap |-> <<ParseDate(s)>>, date |-> 1, dates |-> <<>>], fr, customV, n)
  IN [k \in 1..n |-> st.heap[st.dates[k]]]

----------------------------------------------------------------------------
(* Form schemas (zod): coercion of custom_value, then the refinement *)

\* What the custom_value input holds: not registered, left empty, or a number.
RawInputs ==
  {[k |-> "undefined", v |-> 0], [k |-> "empty", v |-> 0]}
    \cup {[k |-> "number", v |-> n] : n \in -1..MaxCustom}

\* z.coerce.number().optional(): undefined stays, "" coerces to 0.
Coerce(raw) == IF raw.k = "undefined" THEN Undefined ELSE Num(raw.v)

NoErrors == [path |-> "none", message |-> "none"]

Benefits_refine(d) ==
  IF d.frequency = "EVERY_X_DAYS" /\ (~Truthy(d.custom_value) \/ d.custom_value[1] < 1)
    THEN FALSE
  ELSE IF d.frequency = "SPECIFIC_DAY"
          /\ (~Truthy(d.custom_value) \/ d.custom_value[1] < 1 \/ d.custom_value[1] > 31)
    THEN FALSE
  ELSE TRUE

Benefits_schema(values) ==
  LET d == [frequency |-> values.frequency, custom_value |-> Coerce(values.custom_value)]
  IN IF Benefits_refine(d)
       THEN [success |-> TRUE, data |-> <<d>>, error |-> NoErrors]
       ELSE [success |-> FALSE, data |-> <<>>,
             error |-> [path |-> "custom_value",
                        message |-> "Invalid custom value for selected frequency"]]

Payday_refine(d) ==
  IF d.frequency = "EVERY_X_DAYS" /\ (~Truthy(d.custom_value) \/ d.custom_value[1] < 1)
    THEN FALSE
  ELSE IF d.frequency = "SPECIFIC_DAY"
          /\ (~Truthy(d.custom_value) \/ d.custom_value[1] < 1 \/ d.custom_value[1] > 31)
    THEN FALSE
  ELSE TRUE

Payday_schema(values) ==
  LET d == [frequency |-> values.frequency, custom_value |-> Coerce(values.custom_value)]
  IN IF Payday_refine(d)
       THEN [success |-> TRUE, data |-> <<d>>, error |-> NoErrors]
       ELSE [success |-> FALSE, data |-> <<>>,
             error |-> [path |-> "custom_value",
                        message |-> "Invalid custom value for selected frequency"]]

\* Variant: SPECIFIC_DAY without the upper limit of 31.
recurringSchema_refine_noUpper(d) ==
  IF d.frequency = "EVERY_X_DAYS" /\ (~Truthy(d.custom_value) \/ d.custom_value[1] < 1)
    THEN FALSE
  ELSE IF d.frequency = "SPECIFIC_DAY" /\ (~Truthy(d.custom_value) \/ d.custom_value[1] < 1)
    THEN FALSE
  ELSE TRUE

recurringSchema_refine(d) ==
  IF d.frequency = "EVERY_X_DAYS" /\ (~Truthy(d.custom_value) \/ d.custom_value[1] < 1)
    THEN FALSE
  ELSE IF d.frequency = "SPECIFIC_DAY"
          /\ (~Truthy(d.custom_value) \/ d.custom_value[1] < 1 \/ d.custom_value[1] > 31)
    THEN FALSE
  ELSE TRUE

recurringSchema(values) ==
  LET d == [frequency |-> values.frequency, custom_value |-> Coerce(values.custom_value)]
  IN IF recurringSchema_refine(d)
       THEN [success |-> TRUE, data |-> <<d>>, error |-> NoErrors]
       ELSE [success |-> FALSE, data |-> <<>>,
             error |-> [path |-> "custom_value", message |-> "Invalid custom value"]]

----------------------------------------------------------------------------
(* JavaScript numbers of the projection, as exact fractions [n, d] in      *)
(* lowest terms with d > 0; d = 0 stands for a non-finite result           *)
(* (Infinity, NaN). Rounding of the floating-point format is not modelled. *)

RECURSIVE GCD(_, _)
GCD(a, b) == IF b = 0 THEN a ELSE GCD(b, a % b)

Abs(x) == IF x < 0 THEN -x ELSE x

NotFinite == [n |-> 0, d |-> 0]

Fraction(n, d) ==
  IF d = 0 THEN NotFinite
  ELSE LET g == GCD(Abs(n), Abs(d))
           sg == IF d < 0 THEN -1 ELSE 1
       IN [n |-> (sg * n) \div g, d |-> (sg * d) \div g]

Number(k) == [n |-> k, d |-> 1]

Half == [n |-> 1, d |-> 2]

Plus(a, b) ==
  IF a.d = 0 \/ b.d = 0 THEN NotFinite ELSE Fraction(a.n * b.d + b.n * a.d, a.d * b.d)

Minus(a, b) ==
  IF a.d = 0 \/ b.d = 0 THEN NotFinite ELSE Fraction(a.n * b.d - b.n * a.d, a.d * b.d)

Times(a, b) ==
  IF a.d = 0 \/ b.d = 0 THEN NotFinite ELSE Fraction(a.n * b.n, a.d * b.d)

\* a / b: division by zero gives a non-finite number.
Over(a, b) ==
  IF a.d = 0 \/ b.d = 0 THEN NotFinite ELSE Fraction(a.n * b.d, a.d * b.n)

\* a > 0 (false for NaN).
Positive(a) == a.d # 0 /\ a.n > 0

----------------------------------------------------------------------------
(* Projections: the useMemo that computes projectionData *)

HorizonMonths == 6
BaseIncome == 2000
FallbackExpense == 1500
HistoryDivisor == 3
DefaultBillDays == 30
DefaultBenefitDays == 1

\* Frequencies a stored row can carry: the column is free text.
StoredFrequency == Frequency \cup {"QUARTERLY"}

RECURSIVE totalHistoryExpenses(_)
\* expenses.reduce((acc, curr) => acc + curr.amount, 0)
totalHistoryExpenses(exps) ==
  IF exps = <<>> THEN Number(0)
  ELSE Plus(totalHistoryExpenses(SubSeq(exps, 1, Len(exps) - 1)),
            Number(exps[Len(exps)].amount))

\* Variant: the true average over the samples.
avgHistoryExpense_perSample(exps) ==
  Over(totalHistoryExpenses(exps), Number(IF Len(exps) > 0 THEN Len(exps) ELSE 1))

avgHistoryExpense(exps) ==
  Over(totalHistoryExpenses(exps), Number(IF Len(exps) > 0 THEN HistoryDivisor ELSE 1))

\* bill.custom_value || 30
Bill_days(bill) ==
  IF Truthy(bill.custom_value) THEN bill.custom_value[1] ELSE DefaultBillDays

\* Variant: every monthly value rounded down to whole units.
Bill_monthlyVal_floored(bill) ==
  CASE bill.frequency = "WEEKLY" -> Number((bill.amount * 52) \div 12)
    [] bill.frequency = "FORTNIGHTLY" -> Number((bill.amount * 26) \div 12)
    [] bill.frequency \in {"MONTHLY", "SPECIFIC_DAY"} -> Number(bill.amount)
    [] bill.frequency = "YEARLY" -> Number(bill.amount \div 12)
    [] bill.frequency = "EVERY_X_DAYS" ->
         Number(((bill.amount * 365) \div Bill_days(bill)) \div 12)
    [] OTHER -> Number(0)

\* The switch of the recurring-bill reducer.
Bill_monthlyVal(bill) ==
  CASE bill.frequency = "WEEKLY" -> Over(Times(Number(bill.amount), Number(52)), Number(12))
    [] bill.frequency = "FORTNIGHTLY" -> Over(Times(Number(bill.amount), Number(26)), Number(12))
    [] bill.frequency \in {"MONTHLY", "SPECIFIC_DAY"} -> Number(bill.amount)
    [] bill.frequency = "YEARLY" -> Over(Number(bill.amount), Number(12))
    [] bill.frequency = "EVERY_X_DAYS" ->
         Over(Over(Times(Number(bill.amount), Number(365)), Number(Bill_days(bill))), Number(12))
    [] OTHER -> Number(0)

RECURSIVE monthlyFixedCosts(_)
monthlyFixedCosts(bills) ==
  IF bills = <<>> THEN Number(0)
  ELSE Plus(monthlyFixedCosts(SubSeq(bills, 1, Len(bills) - 1)),
            Bill_monthlyVal(bills[Len(bills)]))

\* Variant: no fallback constant when there is no history.
projectedMonthlyExpense_noFallback(fixedCosts, avgHistory) ==
  IF Positive(fixedCosts)
    THEN Plus(fixedCosts, Times(avgHistory, Half))
    ELSE avgHistory

\* Variant: a 20% buffer of the history instead of 50%.
projectedMonthlyExpense_fifth(fixedCosts, avgHistory) ==
  IF Positive(fixedCosts)
    THEN Plus(fixedCosts, Times(avgHistory, [n |-> 1, d |-> 5]))
    ELSE IF Positive(avgHistory) THEN avgHistory ELSE Number(FallbackExpense)

projectedMonthlyExpense(fixedCosts, avgHistory) ==
  IF Positive(fixedCosts)
    THEN Plus(fixedCosts, Times(avgHistory, Half))
    ELSE IF Positive(avgHistory) THEN avgHistory ELSE Number(FallbackExpense)

\* Variant: no default for a missing custom_value.
Benefit_days_noDefault(b) ==
  IF b.custom_value = Undefined THEN 0 ELSE b.custom_value[1]

\* b.custom_value || 1
Benefit_days(b) ==
  IF Truthy(b.custom_value) THEN b.custom_value[1] ELSE DefaultBenefitDays

\* Variant: a month taken as four weeks.
Benefit_monthlyValue_fourWeeks(b) ==
  CASE b.frequency = "WEEKLY" -> Times(Number(b.amount), Number(4))
    [] b.frequency = "FORTNIGHTLY" -> Times(Number(b.amount), Number(2))
    [] b.frequency \in {"MONTHLY", "SPECIFIC_DAY"} -> Number(b.amount)
    [] b.frequency = "YEARLY" -> Over(Number(b.amount), Number(12))
    [] b.frequency = "EVERY_X_DAYS" ->
         Over(Over(Times(Number(b.amount), Number(365)), Number(Benefit_days(b))), Number(12))
    [] OTHER -> Number(0)

\* The switch of the benefit reducer.
Benefit_monthlyValue(b) ==
  CASE b.frequency = "WEEKLY" -> Over(Times(Number(b.amount), Number(52)), Number(12))
    [] b.frequency = "FORTNIGHTLY" -> Over(Times(Number(b.amount), Number(26)), Number(12))
    [] b.frequency \in {"MONTHLY", "SPECIFIC_DAY"} -> Number(b.amount)
    [] b.frequency = "YEARLY" -> Over(Number(b.amount), Number(12))
    [] b.frequency = "EVERY_X_DAYS" ->
         Over(Over(Times(Number(b.amount), Number(365)), Number(Benefit_days(b))), Number(12))
    [] OTHER -> Number(0)

RECURSIVE monthlyBenefits(_)
monthlyBenefits(bs) ==
  IF bs = <<>> THEN Number(0)
  ELSE Plus(monthlyBenefits(SubSeq(bs, 1, Len(bs) - 1)),
            Benefit_monthlyValue(bs[Len(bs)]))

\* format(monthDate, 'MMM yyyy'): the month and the year of the date.
monthLabel(dt) == [y |-> dt.y, m |-> dt.m]

RECURSIVE ProjectionLoop_pushFirst(_, _, _, _, _, _)
\* Variant: the point is pushed before the month's net is added.
ProjectionLoop_pushFirst(k, points, currentSavings, nw, income, expense) ==
  IF ~(k < HorizonMonths) THEN points
  ELSE ProjectionLoop_pushFirst(k + 1,
         Append(points, [month |-> monthLabel(addMonths(nw, k)),
                         Income |-> income,
                         Expenses |-> expense,
                         Savings |-> currentSavings]),
         Plus(currentSavings, Minus(income, expense)), nw, income, expense)

RECURSIVE ProjectionLoop_setMonth(_, _, _, _, _, _)
\* Variant: the month is moved with Date.setMonth, which overflows into the
\* following month instead of clipping to the month's last day.
ProjectionLoop_setMonth(k, points, currentSavings, nw, income, expense) ==
  IF ~(k < HorizonMonths) THEN points
  ELSE LET net == Minus(income, expense)
           savings == Plus(currentSavings, net)
       IN ProjectionLoop_setMonth(k + 1,
            Append(points, [month |-> monthLabel(MakeDate(nw.y, nw.m + k, nw.d)),
                            Income |-> income,
                            Expenses |-> expense,
                            Savings |-> savings]),
            savings, nw, income, expense)

RECURSIVE ProjectionLoop(_, _, _, _, _, _)
\* for (let i = 0; i < 6; i++) { ... data.push(...) } from iteration k on.
ProjectionLoop(k, points, currentSavings, nw, income, expense) ==
  IF ~(k < HorizonMonths) THEN points
  ELSE LET net == Minus(income, expense)
           savings == Plus(currentSavings, net)
       IN ProjectionLoop(k + 1,
            Append(points, [month |-> monthLabel(addMonths(nw, k)),
                            Income |-> income,
                            Expenses |-> expense,
                            Savings |-> savings]),
            savings, nw, income, expense)

\* Variant: no base salary added to the recurring income.
projectionData_noBase(exps, bens, bills, nw) ==
  LET avg == avgHistoryExpense(exps)
      fixed == monthlyFixedCosts(bills)
      projected == projectedMonthlyExpense(fixed, avg)
      recurring == monthlyBenefits(bens)
  IN [avgHistoryExpense |-> avg,
      monthlyFixedCosts |-> fixed,
      projectedMonthlyExpense |-> projected,
      monthlyBenefits |-> recurring,
      data |-> ProjectionLoop(0, <<>>, Number(0), nw, recurring, projected)]

\* The useMemo callback: its locals and the returned data.
projectionData(exps, bens, bills, nw) ==
  LET avg == avgHistoryExpense(exps)
      fixed == monthlyFixedCosts(bills)
      projected == projectedMonthlyExpense(fixed, avg)
      recurring == monthlyBenefits(bens)
  IN [avgHistoryExpense |-> avg,
      monthlyFixedCosts |-> fixed,
      projectedMonthlyExpense |-> projected,
      monthlyBenefits |-> recurring,
      data |-> ProjectionLoop(0, <<>>, Number(0), nw, Plus(recurring, Number(BaseIncome)), projected)]

\* The "Recurring Bills" line of the Calculation Basis card.
Projections_recurringBillsBasis(bills) ==
  IF Len(bills) > 0 THEN "Active (Preferred)" ELSE "None (Using History)"

----------------------------------------------------------------------------
(* Inputs of the projection *)

\* Rows of the recurring tables as the projection reads them.
BillRows ==
  {[amount |-> 1000, frequency |-> f, custom_value |-> Undefined] :
      f \in StoredFrequency \ {"EVERY_X_DAYS"}}
    \cup {[amount |-> 1000, frequency |-> "EVERY_X_DAYS", custom_value |-> c] :
            c \in {Undefined, Num(0), Num(28)}}
    \cup {[amount |-> 0, frequency |-> "MONTHLY", custom_value |-> Undefined]}

BenefitRows ==
  {[amount |-> 120, frequency |-> f, custom_value |-> Undefined] :
      f \in StoredFrequency \ {"EVERY_X_DAYS"}}
    \cup {[amount |-> 120, frequency |-> "EVERY_X_DAYS", custom_value |-> c] :
            c \in {Undefined, Num(0), Num(28)}}

\* Historical expenses; a refund is stored as a negative amount.
ExpenseRows == {[amount |-> 901], [amount |-> -600]}

SeqsUpTo(S, n) == UNION {[1..k -> S] : k \in 0..n}

\* The clock when the memo runs.
NowDates == {[y |-> MaxYear, m |-> 0, d |-> 31], [y |-> MaxYear - 1, m |-> 10, d |-> 15]}

NoDate == [y |-> 0, m |-> 0, d |-> 0]

\* The clock does not run backwards between two readings.
ClockAdvances(before, after) ==
  \/ after.y > before.y
  \/ after.y = before.y /\ after.m > before.m
  \/ after.y = before.y /\ after.m = before.m /\ after.d >= before.d

\* What the store answers to the select on assetflow_recurring_expenses:
\* rows and no error, or an error with its code and no rows.
TableMissing == "42P01"

ErrorCodes == {TableMissing, "42501", "PGRST301"}

BillResponses ==
  {[data |-> rows, error |-> "null"] : rows \in SeqsUpTo(BillRows, MaxBills)}
    \cup {[data |-> <<>>, error |-> c] : c \in ErrorCodes}

NoResponse == [data |-> <<>>, error |-> "null"]

\* Variant: every error is thrown, the missing table included.
fetchRecurringExpenses_outcome_throwAll(resp) ==
  IF resp.error # "null" THEN [status |-> "thrown", value |-> <<>>]
  ELSE [status |-> "returned", value |-> resp.data]

\* fetchRecurringExpenses after the await: what the promise settles to.
fetchRecurringExpenses_outcome(resp) ==
  IF resp.error # "null" /\ resp.error = TableMissing
    THEN [status |-> "returned", value |-> <<>>]
  ELSE IF resp.error # "null" THEN [status |-> "thrown", value |-> <<>>]
  ELSE [status |-> "returned", value |-> resp.data]

NoProjection ==
  [avgHistoryExpense |-> Number(0), monthlyFixedCosts |-> Number(0),
   projectedMonthlyExpense |-> Number(0), monthlyBenefits |-> Number(0), data |-> <<>>]

\* The page is not mounted.
ProjIdle ==
  /\ queries = [expenses |-> "idle", benefits |-> "idle", recurringBills |-> "idle"]
  /\ expenses = <<>>
  /\ benefits = <<>>
  /\ recurringBills = <<>>
  /\ now = NoDate
  /\ projection = NoProjection
  /\ response = NoResponse

\* The Goals page is not mounted.
NoGoal == [current_amount |-> 0, target_amount |-> 0]

GoalIdle ==
  /\ created = NoGoal
  /\ goal = NoGoal
  /\ shown = NoGoal
  /\ updates = {}
  /\ refetch = "idle"
  /\ clicks = <<>>

\* The application is not started.
Nothing == [kind |-> "nothing", name |-> "none"]

RouteIdle ==
  /\ history = <<>>
  /\ user = "null"
  /\ loading = TRUE
  /\ screen = Nothing


----------------------------------------------------------------------------
(* Initial states *)

GenInit ==
  /\ pc = "idle"
  /\ page = "none"
  /\ data = <<>>
  /\ dateStr = NoDateStr
  /\ freq = "none"
  /\ customVal = Undefined
  /\ count = 0
  /\ i = 0
  /\ date = 0
  /\ dates = <<>>
  /\ heap = <<>>

FormIdle ==
  /\ formPc = "idle"
  /\ formPage = "none"
  /\ formValues = [frequency |-> "MONTHLY", custom_value |-> [k |-> "undefined", v |-> 0]]
  /\ formErrors = NoErrors
  /\ inserted = <<>>

Init == GenInit /\ FormIdle /\ ProjIdle /\ GoalIdle /\ RouteIdle

----------------------------------------------------------------------------
(* Reading the recurring rows: the fetchers hand the store's rows to the   *)
(* page as they are (data as Benefit[]).                                   *)

fetchBenefits ==
  /\ pc = "idle"
  /\ \E row \in Rows : data' = <<row>>
  /\ page' = "Benefits"
  /\ pc' = "fetched"
  /\ UNCHANGED <<dateStr, freq, customVal, count, i, date, dates, heap>>
  /\ UNCHANGED formVars
  /\ UNCHANGED projVars
  /\ UNCHANGED goalVars
  /\ UNCHANGED routeVars

fetchPaydays ==
  /\ pc = "idle"
  /\ \E row \in Rows : data' = <<row>>
  /\ page' = "Payday"
  /\ pc' = "fetched"
  /\ UNCHANGED <<dateStr, freq, customVal, count, i, date, dates, heap>>
  /\ UNCHANGED formVars
  /\ UNCHANGED projVars
  /\ UNCHANGED goalVars
  /\ UNCHANGED routeVars

fetchRecurringExpenses ==
  /\ pc = "idle"
  /\ \E row \in Rows : data' = <<row>>
  /\ page' = "Expenses"
  /\ pc' = "fetched"
  /\ UNCHANGED <<dateStr, freq, customVal, count, i, date, dates, heap>>
  /\ UNCHANGED formVars
  /\ UNCHANGED projVars
  /\ UNCHANGED goalVars
  /\ UNCHANGED routeVars

----------------------------------------------------------------------------
(* The generators: entry (let date = new Date(dateStr); const dates = []), *)
(* one action per loop iteration, and the return.                          *)

\* The pages call with the default count (3, Payday 4); the function takes
\* any count, so the call is modelled for every count up to MaxCount.
Enter(p, n) ==
  /\ pc = "fetched"
  /\ page = p
  /\ dateStr' = data[1].date
  /\ freq' = data[1].frequency
  /\ customVal' = data[1].custom_value
  /\ count' = n
  /\ heap' = <<ParseDate(data[1].date)>>
  /\ date' = 1
  /\ dates' = <<>>
  /\ i' = 0
  /\ pc' = "loop"
  /\ UNCHANGED <<page, data>>
  /\ UNCHANGED formVars
  /\ UNCHANGED projVars
  /\ UNCHANGED goalVars
  /\ UNCHANGED routeVars

Iterate(p) ==
  /\ pc = "loop"
  /\ page = p
  /\ i < count
  /\ LET a == Advance(p, heap, date, freq, customVal)
     IN /\ dates' = Append(dates, date)
        /\ heap' = a.heap
        /\ date' = a.date
  /\ i' = i + 1
  /\ UNCHANGED <<pc, page, data, dateStr, freq, customVal, count>>
  /\ UNCHANGED formVars
  /\ UNCHANGED projVars
  /\ UNCHANGED goalVars
  /\ UNCHANGED routeVars

Return(p) ==
  /\ pc = "loop"
  /\ page = p
  /\ ~(i < count)
  /\ pc' = "done"
  /\ UNCHANGED <<page, data, dateStr, freq, customVal, count, i, date, dates, heap>>
  /\ UNCHANGED formVars
  /\ UNCHANGED projVars
  /\ UNCHANGED goalVars
  /\ UNCHANGED routeVars

Benefits_getNextDates_enter == \E n \in 1..MaxCount : Enter("Benefits", n)

Benefits_getNextDates_iterate == Iterate("Benefits")

Benefits_getNextDates_return == Return("Benefits")

Payday_getFutureDates_enter == \E n \in 1..MaxCount : Enter("Payday", n)

Payday_getFutureDates_iterate == Iterate("Payday")

Payday_getFutureDates_return == Return("Payday")

Expenses_getNextDates_enter == \E n \in 1..MaxCount : Enter("Expenses", n)

Expenses_getNextDates_iterate == Iterate("Expenses")

Expenses_getNextDates_return == Return("Expenses")

Next ==
  \/ fetchBenefits
  \/ fetchPaydays
  \/ fetchRecurringExpenses
  \/ Benefits_getNextDates_enter
  \/ Benefits_getNextDates_iterate
  \/ Benefits_getNextDates_return
  \/ Payday_getFutureDates_enter
  \/ Payday_getFutureDates_iterate
  \/ Payday_getFutureDates_return
  \/ Expenses_getNextDates_enter
  \/ Expenses_getNextDates_iterate
  \/ Expenses_getNextDates_return

Spec == Init /\ [][Next]_vars

----------------------------------------------------------------------------
(* Submitting a form: handleSubmit runs the page's schema; on success the  *)
(* parsed data goes to the insert, on failure the error is shown.          *)

FormInit ==
  /\ GenInit
  /\ ProjIdle
  /\ GoalIdle
  /\ RouteIdle
  /\ formPc = "editing"
  /\ formPage \in Pages
  /\ formValues \in [frequency : Frequency, custom_value : RawInputs]
  /\ formErrors = NoErrors
  /\ inserted = <<>>

Submit(p, result) ==
  /\ formPc = "editing"
  /\ formPage = p
  /\ formPc' = "submitted"
  /\ formErrors' = result.error
  /\ inserted' = result.data
  /\ UNCHANGED <<formPage, formValues>>
  /\ UNCHANGED genVars
  /\ UNCHANGED projVars
  /\ UNCHANGED goalVars
  /\ UNCHANGED routeVars

Benefits_onSubmit == Submit("Benefits", Benefits_schema(formValues))

Payday_onSubmit == Submit("Payday", Payday_schema(formValues))

Expenses_onRecurringSubmit == Submit("Expenses", recurringSchema(formValues))

FormNext ==
  \/ Benefits_onSubmit
  \/ Payday_onSubmit
  \/ Expenses_onRecurringSubmit

SpecForm == FormInit /\ [][FormNext]_vars

----------------------------------------------------------------------------
(* The Projections page *)

\* First render: every query is pending and its data defaults to [].
ProjInit ==
  /\ GenInit
  /\ FormIdle
  /\ GoalIdle
  /\ RouteIdle
  /\ response = NoResponse
  /\ queries = [expenses |-> "pending", benefits |-> "pending", recurringBills |-> "pending"]
  /\ expenses = <<>>
  /\ benefits = <<>>
  /\ recurringBills = <<>>
  /\ now \in NowDates
  /\ projection = projectionData(<<>>, <<>>, <<>>, now)

\* A query settles; the memo runs again on the new data, reading the clock.
Projections_expensesQuery ==
  /\ queries.expenses = "pending"
  /\ queries' = [queries EXCEPT !.expenses = "success"]
  /\ expenses' \in SeqsUpTo(ExpenseRows, MaxExpenses)
  /\ now' \in NowDates
  /\ ClockAdvances(now, now')
  /\ projection' = projectionData(expenses', benefits, recurringBills, now')
  /\ UNCHANGED <<benefits, recurringBills, response>>
  /\ UNCHANGED genVars
  /\ UNCHANGED formVars
  /\ UNCHANGED goalVars
  /\ UNCHANGED routeVars

Projections_benefitsQuery ==
  /\ queries.benefits = "pending"
  /\ queries' = [queries EXCEPT !.benefits = "success"]
  /\ benefits' \in SeqsUpTo(BenefitRows, MaxBenefits)
  /\ now' \in NowDates
  /\ ClockAdvances(now, now')
  /\ projection' = projectionData(expenses, benefits', recurringBills, now')
  /\ UNCHANGED <<expenses, recurringBills, response>>
  /\ UNCHANGED genVars
  /\ UNCHANGED formVars
  /\ UNCHANGED goalVars
  /\ UNCHANGED routeVars

Projections_recurringBillsQuery ==
  /\ queries.recurringBills = "pending"
  /\ response' \in BillResponses
  /\ LET outcome == fetchRecurringExpenses_outcome(response')
     IN IF outcome.status = "returned"
          THEN /\ queries' = [queries EXCEPT !.recurringBills = "success"]
               /\ recurringBills' = outcome.value
          ELSE /\ queries' = [queries EXCEPT !.recurringBills = "error"]
               /\ recurringBills' = <<>>
  /\ now' \in NowDates
  /\ ClockAdvances(now, now')
  /\ projection' = projectionData(expenses, benefits, recurringBills', now')
  /\ UNCHANGED <<expenses, benefits>>
  /\ UNCHANGED genVars
  /\ UNCHANGED formVars
  /\ UNCHANGED goalVars
  /\ UNCHANGED routeVars

ProjNext ==
  \/ Projections_expensesQuery
  \/ Projections_benefitsQuery
  \/ Projections_recurringBillsQuery

SpecProj == ProjInit /\ [][ProjNext]_vars

----------------------------------------------------------------------------
(* The Goals page: one goal of the list, its add-funds buttons, the update *)
(* requests in flight and the refetch of the goals query.                  *)

\* Rows of assetflow_goals.
GoalRows ==
  {[current_amount |-> 0, target_amount |-> 1000],
   [current_amount |-> 150, target_amount |-> 250]}

\* The amounts of the two buttons.
FundAmounts == {50, 100}

\* Math.min(100, Math.round((current_amount / target_amount) * 100))
percent(g) == Min(100, (200 * g.current_amount + g.target_amount) \div (2 * g.target_amount))

isComplete(g) == percent(g) >= 100

\* The page shows the goal as the query returned it.
GoalInit ==
  /\ GenInit
  /\ FormIdle
  /\ ProjIdle
  /\ RouteIdle
  /\ created \in GoalRows
  /\ goal = created
  /\ shown = created
  /\ updates = {}
  /\ refetch = "idle"
  /\ clicks = <<>>

\* A click on '+ $50' or '+ $100': addFunds(goal.id, goal.current_amount,
\* amount) up to its await; the request carries current + amount, with
\* current the amount of the goal as rendered.
Goals_addFunds(amount) ==
  /\ ~isComplete(shown)
  /\ Len(clicks) < MaxClicks
  /\ updates' = updates \cup {[click |-> Len(clicks) + 1,
                               current_amount |-> shown.current_amount + amount]}
  /\ clicks' = Append(clicks, amount)
  /\ UNCHANGED <<created, goal, shown, refetch>>
  /\ UNCHANGED genVars
  /\ UNCHANGED formVars
  /\ UNCHANGED projVars
  /\ UNCHANGED routeVars

Goals_addFunds_click == \E amount \in FundAmounts : Goals_addFunds(amount)

\* The store applies one request in flight; addFunds resumes after its
\* await and invalidates the goals query.
Goals_addFunds_resume ==
  /\ \E u \in updates :
       /\ goal' = [goal EXCEPT !.current_amount = u.current_amount]
       /\ updates' = updates \ {u}
  /\ refetch' = "pending"
  /\ UNCHANGED <<created, shown, clicks>>
  /\ UNCHANGED genVars
  /\ UNCHANGED formVars
  /\ UNCHANGED projVars
  /\ UNCHANGED routeVars

\* The refetch of the invalidated query settles and the page renders the
\* stored row.
Goals_refetch ==
  /\ refetch = "pending"
  /\ shown' = goal
  /\ refetch' = "idle"
  /\ UNCHANGED <<created, goal, updates, clicks>>
  /\ UNCHANGED genVars
  /\ UNCHANGED formVars
  /\ UNCHANGED projVars
  /\ UNCHANGED routeVars

GoalNext ==
  \/ Goals_addFunds_click
  \/ Goals_addFunds_resume
  \/ Goals_refetch

SpecGoals == GoalInit /\ [][GoalNext]_vars

----------------------------------------------------------------------------
(* The router: AppRoutes and ProtectedRoute render an element from the     *)
(* current location and from the user and loading of useAuth(); a Navigate *)
(* element changes the location once rendered.                             *)

Users == {"u1"}

\* The routes wrapped in ProtectedRoute, with the page each one renders.
ProtectedRoutes ==
  [p \in {"/", "/assets", "/debts", "/goals", "/income", "/expenses", "/benefits",
          "/payday", "/projections", "/reports"} |->
     CASE p = "/" -> "Dashboard"
       [] p = "/assets" -> "Assets"
       [] p = "/debts" -> "Debts"
       [] p = "/goals" -> "Goals"
       [] p = "/income" -> "Income"
       [] p = "/expenses" -> "Expenses"
       [] p = "/benefits" -> "Benefits"
       [] p = "/payday" -> "Payday"
       [] p = "/projections" -> "Projections"
       [] p = "/reports" -> "Reports"]

\* Locations a visitor can be at; "/settings" matches no route.
Paths == {"/login", "/register", "/settings"} \cup DOMAIN ProtectedRoutes

PageElement(name) == [kind |-> "page", name |-> name]

Navigate(to) == [kind |-> "navigate", name |-> to]

\* Variant: the guard lets a visitor without a user through.
ProtectedRoute_noUserCheck(children, u, l) ==
  IF l THEN [kind |-> "loading", name |-> "Loading..."]
  ELSE children

ProtectedRoute(children, u, l) ==
  IF l THEN [kind |-> "loading", name |-> "Loading..."]
  ELSE IF u = "null" THEN Navigate("/login")
  ELSE children

AppRoutes(path, u, l) ==
  IF l THEN Nothing
  ELSE IF path = "/login" THEN (IF u = "null" THEN PageElement("Login") ELSE Navigate("/"))
  ELSE IF path = "/register" THEN (IF u = "null" THEN PageElement("Register") ELSE Navigate("/"))
  ELSE IF path \in DOMAIN ProtectedRoutes
    THEN ProtectedRoute(PageElement(ProtectedRoutes[path]), u, l)
  ELSE Nothing

\* The history stack of the HashRouter, cut to its last MaxHistory entries.
Push(h, path) == IF Len(h) < MaxHistory THEN Append(h, path) ELSE Append(Tail(h), path)

Location(h) == h[Len(h)]

\* The application starts at some location while the session is looked up.
RouteInit ==
  /\ GenInit
  /\ FormIdle
  /\ ProjIdle
  /\ GoalIdle
  /\ history \in {<<p>> : p \in Paths}
  /\ user = "null"
  /\ loading = TRUE
  /\ screen = AppRoutes(Location(history), user, loading)

\* A change of the location or of the auth state, and the render it causes.
Render(h, u, l) ==
  /\ history' = h
  /\ user' = u
  /\ loading' = l
  /\ screen' = AppRoutes(Location(h), u, l)
  /\ UNCHANGED genVars
  /\ UNCHANGED formVars
  /\ UNCHANGED projVars
  /\ UNCHANGED goalVars

\* useAuth(): the session lookup ends, with or without a user.
Auth_loaded ==
  /\ history # <<>>
  /\ loading
  /\ \E u \in Users \cup {"null"} : Render(history, u, FALSE)

\* useAuth(): a user signs in.
Auth_signedIn ==
  /\ history # <<>>
  /\ ~loading
  /\ user = "null"
  /\ \E u \in Users : Render(history, u, FALSE)

\* useAuth(): signOut, or the session ends.
Auth_signedOut ==
  /\ history # <<>>
  /\ ~loading
  /\ user # "null"
  /\ Render(history, "null", FALSE)

\* Login.onSubmit after a successful signInWithPassword: navigate('/').
Login_onSubmit ==
  /\ screen = PageElement("Login")
  /\ Render(Push(history, "/"), user, loading)

\* The visitor follows a link or enters a location.
Router_go ==
  /\ history # <<>>
  /\ \E path \in Paths : Render(Push(history, path), user, loading)

\* The visitor goes back one entry.
Router_back ==
  /\ Len(history) > 1
  /\ Render(SubSeq(history, 1, Len(history) - 1), user, loading)

\* A rendered <Navigate to=...> changes the location.
Navigate_effect ==
  /\ screen.kind = "navigate"
  /\ Render(Push(history, screen.name), user, loading)

RouteNext ==
  \/ Auth_loaded
  \/ Auth_signedIn
  \/ Auth_signedOut
  \/ Login_onSubmit
  \/ Router_go
  \/ Router_back
  \/ Navigate_effect

SpecRoute == RouteInit /\ [][RouteNext]_vars

----------------------------------------------------------------------------
(* Vocabulary of the properties *)

\* The FrequencyPolicy invariant: EVERY_X_DAYS needs customValue >= 1,
\* SPECIFIC_DAY needs 1 <= customValue <= 31, the other kinds need nothing.
ValidPolicy(fr, customV) ==
  /\ fr \in Frequency
  /\ fr = "EVERY_X_DAYS" => (customV # Undefined /\ customV[1] >= 1)
  /\ fr = "SPECIFIC_DAY" => (customV # Undefined /\ customV[1] >= 1 /\ customV[1] <= 31)

\* The dates the generator has placed in its result, as calendar values.
Result == [k \in 1..Len(dates) |-> heap[dates[k]]]

\* The anchor as a calendar value, read off the date string.
Anchor == [y |-> dateStr.y, m |-> dateStr.mo - 1, d |-> dateStr.d]

Earlier(a, b) ==
  \/ a.y < b.y
  \/ a.y = b.y /\ a.m < b.m
  \/ a.y = b.y /\ a.m = b.m /\ a.d < b.d

MonthIndex(dt) == dt.y * 12 + dt.m

MonthLengths == <<31, 28, 31, 30, 31, 30, 31, 31, 30, 31, 30, 31>>

\* Length of the calendar month a date lies in.
LengthOfMonth(dt) ==
  IF dt.m = 1 /\ dt.y % 4 = 0 /\ (dt.y % 100 # 0 \/ dt.y % 400 = 0)
    THEN 29 ELSE MonthLengths[dt.m + 1]

\* Days since 0000-03-01 of the proleptic Gregorian calendar.
DayNum(dt) ==
  LET yy == IF dt.m < 2 THEN dt.y - 1 ELSE dt.y
      mp == (dt.m + 10) % 12
      doy == (153 * mp + 2) \div 5 + dt.d - 1
  IN 365 * yy + yy \div 4 - yy \div 100 + yy \div 400 + doy

Returned == pc = "done"

----------------------------------------------------------------------------
(* Properties *)

\* C1: for a valid policy and count >= 1 the generator returns exactly count
\* dates, the first is the anchor date, and each is strictly later than the
\* one before it.
C1_CountAnchorIncreasing ==
  (Returned /\ ValidPolicy(freq, customVal) /\ count >= 1) =>
    /\ Len(dates) = count
    /\ Result[1] = Anchor
    /\ \A k \in 1..(Len(dates) - 1) : Earlier(Result[k], Result[k + 1])

C1_Witness ==
  /\ Returned
  /\ freq = "EVERY_X_DAYS"
  /\ customVal = Num(1)
  /\ count = MaxCount
  /\ Len(dates) = MaxCount

\* C2: for SPECIFIC_DAY with customValue d in 1..31, every occurrence after
\* the first lies in the month right after the previous occurrence's month,
\* on day min(d, length of that month).
C2_SpecificDayNextMonthClipped ==
  (Returned /\ freq = "SPECIFIC_DAY" /\ ValidPolicy(freq, customVal)) =>
    \A k \in 2..Len(dates) :
      /\ MonthIndex(Result[k]) = MonthIndex(Result[k - 1]) + 1
      /\ Result[k].d = Min(customVal[1], LengthOfMonth(Result[k]))

C2_Witness ==
  /\ Returned
  /\ freq = "SPECIFIC_DAY"
  /\ customVal = Num(30)
  /\ dateStr.mo = 1 /\ dateStr.d = 31
  /\ count >= 3
  /\ Result[2].m = 1 /\ Result[2].d < 30
  /\ Result[3].m = 2 /\ Result[3].d = 30

\* C3 as stated: with customValue 31 and an anchor in a 30-day month, the
\* second occurrence has day 30 and is not the 1st of a month.
C3_Original ==
  (Returned /\ freq = "SPECIFIC_DAY" /\ customVal = Num(31)
     /\ dateStr.mo \in {4, 6, 9, 11} /\ count >= 2) =>
    (Result[2].d = 30 /\ Result[2].d # 1)

\* C3 amended: with customValue 31, an occurrence after the first that falls
\* in a 30-day month has day 30 in the month right after the previous
\* occurrence; after an anchor in a 30-day month the second occurrence is the
\* 31st of the following month.
C3_ClippedInThirtyDayMonth ==
  (Returned /\ freq = "SPECIFIC_DAY" /\ customVal = Num(31)) =>
    /\ \A k \in 2..Len(dates) :
         /\ MonthIndex(Result[k]) = MonthIndex(Result[k - 1]) + 1
         /\ Result[k].m \in {3, 5, 8, 10} => Result[k].d = 30
    /\ (dateStr.mo \in {4, 6, 9, 11} /\ count >= 2) =>
         (Result[2].d = 31 /\ Result[2].m = dateStr.mo)

C3_Witness ==
  /\ Returned
  /\ freq = "SPECIFIC_DAY"
  /\ customVal = Num(31)
  /\ dateStr.mo = 3
  /\ count >= 2
  /\ Result[2].m = 3 /\ Result[2].d = 30

\* C4: a policy that fails validation makes the generator fail with
\* InvalidPolicy: it never returns and produces no dates.
C4_InvalidPolicyFails ==
  (pc \in {"loop", "done"} /\ ~ValidPolicy(freq, customVal)) =>
    (~Returned /\ dates = <<>>)

\* What the form holds in custom_value, as the claim reads it: absent when the
\* field is not registered or left empty, its number otherwise.
FormAbsent == formValues.custom_value.k \in {"undefined", "empty"}

FormNumber == formValues.custom_value.v

MustReject ==
  \/ formValues.frequency = "EVERY_X_DAYS" /\ (FormAbsent \/ FormNumber < 1)
  \/ formValues.frequency = "SPECIFIC_DAY" /\ (FormAbsent \/ FormNumber < 1 \/ FormNumber > 31)

\* C5: a submitted (frequency, custom_value) pair is rejected, with the error
\* on custom_value and nothing inserted, exactly when the frequency is
\* EVERY_X_DAYS and custom_value is absent or < 1, or the frequency is
\* SPECIFIC_DAY and custom_value is absent or outside 1..31; every other pair
\* is accepted; and the three schemas give the same answer for the pair.
C5_SchemaRejectsExactlyInvalid ==
  formPc = "submitted" =>
    /\ MustReject => (formErrors.path = "custom_value" /\ inserted = <<>>)
    /\ ~MustReject => (formErrors = NoErrors /\ inserted # <<>>)
    /\ Benefits_schema(formValues).success = Payday_schema(formValues).success
    /\ Payday_schema(formValues).success = recurringSchema(formValues).success
    /\ recurringSchema(formValues).success = (inserted # <<>>)

C5_Witness ==
  /\ formPc = "submitted"
  /\ formPage = "Expenses"
  /\ formValues.frequency = "SPECIFIC_DAY"
  /\ formValues.custom_value = [k |-> "number", v |-> 32]
  /\ formErrors.path = "custom_value"

\* C6: every recurring record read from storage is re-validated before use:
\* no record whose policy violates the invariant reaches the generator.
C6_ReadRevalidated ==
  pc \in {"loop", "done"} => ValidPolicy(data[1].frequency, data[1].custom_value)

\* C7: for EVERY_X_DAYS with customValue N >= 1 the k-th occurrence (k from
\* 0) is the anchor plus k*N days; N = 28 from 2024-01-01 gives 2024-01-01,
\* 2024-01-29, 2024-02-26, 2024-03-25.
C7_EveryXDaysSteps ==
  (Returned /\ freq = "EVERY_X_DAYS" /\ ValidPolicy(freq, customVal)) =>
    /\ \A k \in 1..Len(dates) :
         DayNum(Result[k]) = DayNum(Anchor) + (k - 1) * customVal[1]
    /\ (dateStr = [y |-> 2024, mo |-> 1, d |-> 1] /\ customVal = Num(28) /\ count >= 4) =>
         /\ Result[1] = [y |-> 2024, m |-> 0, d |-> 1]
         /\ Result[2] = [y |-> 2024, m |-> 0, d |-> 29]
         /\ Result[3] = [y |-> 2024, m |-> 1, d |-> 26]
         /\ Result[4] = [y |-> 2024, m |-> 2, d |-> 25]

C7_Witness ==
  /\ Returned
  /\ freq = "EVERY_X_DAYS"
  /\ customVal = Num(28)
  /\ dateStr = [y |-> 2024, mo |-> 1, d |-> 1]
  /\ count = 4
  /\ Len(dates) = 4

\* C8 as stated: for MONTHLY each occurrence lies in the month after the
\* previous one and has the anchor's day-of-month wherever the month has
\* that day, the month's last day otherwise.
C8_Original ==
  (Returned /\ freq = "MONTHLY") =>
    \A k \in 2..Len(dates) :
      /\ MonthIndex(Result[k]) = MonthIndex(Result[k - 1]) + 1
      /\ Result[k].d = Min(Anchor.d, LengthOfMonth(Result[k]))

\* C8 amended: for MONTHLY each occurrence lies in the month after the
\* previous one and has the previous occurrence's day-of-month wherever the
\* month has that day, the month's last day otherwise; the day never grows
\* back towards the anchor's.
C8_MonthlyKeepsPreviousDay ==
  (Returned /\ freq = "MONTHLY") =>
    \A k \in 2..Len(dates) :
      /\ MonthIndex(Result[k]) = MonthIndex(Result[k - 1]) + 1
      /\ Result[k].d = Min(Result[k - 1].d, LengthOfMonth(Result[k]))
      /\ Result[k].d <= Result[k - 1].d

C8_Witness ==
  /\ Returned
  /\ freq = "MONTHLY"
  /\ dateStr.mo = 1 /\ dateStr.d = 31
  /\ count >= 3
  /\ Result[2].m = 1
  /\ Result[3].m = 2 /\ Result[3].d = Result[2].d

\* C9 as stated: for YEARLY the k-th occurrence is in the anchor's year plus
\* k, in the anchor's month, on the anchor's day-of-month whenever that date
\* exists in that year (29 February again in the next leap year).
C9_Original ==
  (Returned /\ freq = "YEARLY") =>
    \A k \in 1..Len(dates) :
      /\ Result[k].y = Anchor.y + (k - 1)
      /\ Result[k].m = Anchor.m
      /\ Result[k].d = Min(Anchor.d, LengthOfMonth(Result[k]))

\* C9 amended: for YEARLY the k-th occurrence is in the anchor's year plus k,
\* in the anchor's month, on the previous occurrence's day-of-month clipped
\* to the month's length: a 29 February anchor gives 28 February in every
\* later year, leap years included.
C9_YearlyKeepsPreviousDay ==
  (Returned /\ freq = "YEARLY") =>
    /\ \A k \in 1..Len(dates) :
         /\ Result[k].y = Anchor.y + (k - 1)
         /\ Result[k].m = Anchor.m
    /\ \A k \in 2..Len(dates) :
         /\ Result[k].d = Min(Result[k - 1].d, LengthOfMonth(Result[k]))
         /\ (Anchor.m = 1 /\ Anchor.d = 29) => Result[k].d = 28

C9_Witness ==
  /\ Returned
  /\ freq = "YEARLY"
  /\ dateStr = [y |-> 2024, mo |-> 2, d |-> 29]
  /\ count >= 5
  /\ Result[5] = [y |-> 2028, m |-> 1, d |-> 28]

\* C10: WEEKLY occurrences are exactly 7 days apart, FORTNIGHTLY ones exactly
\* 14 days apart, and from the same anchor the FORTNIGHTLY sequence is every
\* second element of the WEEKLY sequence.
C10_WeeklyFortnightly ==
  /\ (Returned /\ freq = "WEEKLY") =>
       \A k \in 2..Len(dates) : DayNum(Result[k]) = DayNum(Result[k - 1]) + 7
  /\ (Returned /\ freq = "FORTNIGHTLY") =>
       /\ \A k \in 2..Len(dates) : DayNum(Result[k]) = DayNum(Result[k - 1]) + 14
       /\ LET weekly == GetDates(page, dateStr, "WEEKLY", customVal, 2 * Len(dates) - 1)
          IN \A k \in 1..Len(dates) : Result[k] = weekly[2 * k - 1]

C10_Witness ==
  /\ Returned
  /\ freq = "FORTNIGHTLY"
  /\ page = "Payday"
  /\ count = 4
  /\ Len(dates) = 4
  /\ DayNum(Result[4]) = DayNum(Anchor) + 42

\* A step of the generator keeps every date already placed in the result, and
\* a finished run equals what a second call with the same arguments returns.
C11_Step ==
  /\ \A k \in 1..Len(dates) :
       /\ k <= Len(dates')
       /\ dates'[k] = dates[k]
       /\ heap'[dates[k]] = heap[dates[k]]
  /\ Returned' => Result' = GetDates(page', dateStr', freq', customVal', count')

\* C11: generation is deterministic and free of side effects: a second call
\* with the same (anchor, frequency, customValue, count) returns the same
\* sequence, and no step of the loop changes a date already placed in the
\* result (the setDate of the SPECIFIC_DAY branch touches only the date not
\* yet emitted).
C11_EmittedDatesStable == [][C11_Step]_vars

C11_Witness ==
  /\ Returned
  /\ freq = "SPECIFIC_DAY"
  /\ customVal = Num(31)
  /\ count >= 3
  /\ Len(dates) = count
  /\ Result[1] # Result[2]
  /\ Result[2] # Result[3]

----------------------------------------------------------------------------
(* Vocabulary of the projection properties: a number x of the model equals *)
(* the ratio num/den when x is finite and is num/den in lowest terms.      *)

IsRatio(x, num, den) == x.d # 0 /\ den # 0 /\ x = Fraction(num, den)

\* The monthly value of a record as the normalizer's table states it, as a
\* pair <<numerator, denominator>>; days is the customValue to divide by.
TableValue(r, days) ==
  CASE r.frequency = "WEEKLY" -> <<r.amount * 52, 12>>
    [] r.frequency = "FORTNIGHTLY" -> <<r.amount * 26, 12>>
    [] r.frequency \in {"MONTHLY", "SPECIFIC_DAY"} -> <<r.amount, 1>>
    [] r.frequency = "YEARLY" -> <<r.amount, 12>>
    [] r.frequency = "EVERY_X_DAYS" -> <<r.amount * 365, days * 12>>
    [] OTHER -> <<0, 1>>

\* customValue of a record, 30 when it is absent or zero.
DaysOrThirty(r) == IF r.custom_value # Undefined /\ r.custom_value[1] # 0
                     THEN r.custom_value[1] ELSE 30

RECURSIVE TableSum(_)
\* Sum of the table's monthly values of a list of records.
TableSum(rows) ==
  IF rows = <<>> THEN Number(0)
  ELSE LET v == TableValue(Head(rows), DaysOrThirty(Head(rows)))
       IN Plus(Fraction(v[1], v[2]), TableSum(Tail(rows)))

\* A record of one of the six kinds whose EVERY_X_DAYS customValue is >= 1.
InTable(r) ==
  /\ r.frequency \in Frequency
  /\ r.frequency = "EVERY_X_DAYS" => (r.custom_value # Undefined /\ r.custom_value[1] >= 1)

AllInTable(rows) == \A k \in 1..Len(rows) : InTable(rows[k])

Doubled(rows) == [k \in 1..Len(rows) |-> [rows[k] EXCEPT !.amount = 2 * @]]

Zeroed(rows) == [k \in 1..Len(rows) |-> [rows[k] EXCEPT !.amount = 0]]

RECURSIVE SumAmounts(_)
SumAmounts(rows) == IF rows = <<>> THEN 0 ELSE Head(rows).amount + SumAmounts(Tail(rows))

Mounted == queries.expenses # "idle"

Points == projection.data

\* C12: the monthly value of an amount a is a*52/12 for WEEKLY, a*26/12 for
\* FORTNIGHTLY, a for MONTHLY and SPECIFIC_DAY, a/12 for YEARLY and
\* a*365/customValue/12 for EVERY_X_DAYS with customValue >= 1, for recurring
\* bills and for recurring income alike.
C12_MonthlyValueTable ==
  Mounted =>
    /\ \A k \in 1..Len(recurringBills) :
         InTable(recurringBills[k]) =>
           LET v == TableValue(recurringBills[k], DaysOrThirty(recurringBills[k]))
           IN IsRatio(Bill_monthlyVal(recurringBills[k]), v[1], v[2])
    /\ \A k \in 1..Len(benefits) :
         InTable(benefits[k]) =>
           LET v == TableValue(benefits[k], DaysOrThirty(benefits[k]))
           IN IsRatio(Benefit_monthlyValue(benefits[k]), v[1], v[2])
    /\ AllInTable(recurringBills) =>
         projection.monthlyFixedCosts = TableSum(recurringBills)
    /\ AllInTable(benefits) =>
         projection.monthlyBenefits = TableSum(benefits)

C12_Witness ==
  /\ queries.recurringBills = "success"
  /\ queries.benefits = "success"
  /\ recurringBills = <<[amount |-> 1000, frequency |-> "EVERY_X_DAYS", custom_value |-> Num(28)]>>
  /\ benefits = <<[amount |-> 120, frequency |-> "WEEKLY", custom_value |-> Undefined]>>
  /\ projection.monthlyBenefits = Number(520)

\* C13: an EVERY_X_DAYS record whose customValue is absent or zero has the
\* monthly value amount*365/30/12, as a recurring bill and as a benefit
\* alike, and no division by zero occurs.
C13_DefaultThirtyDays ==
  Mounted =>
    /\ \A k \in 1..Len(recurringBills) :
         (recurringBills[k].frequency = "EVERY_X_DAYS" /\ ~Truthy(recurringBills[k].custom_value)) =>
           IsRatio(Bill_monthlyVal(recurringBills[k]), recurringBills[k].amount * 365, 30 * 12)
    /\ \A k \in 1..Len(benefits) :
         (benefits[k].frequency = "EVERY_X_DAYS" /\ ~Truthy(benefits[k].custom_value)) =>
           IsRatio(Benefit_monthlyValue(benefits[k]), benefits[k].amount * 365, 30 * 12)
    /\ (\A k \in 1..Len(benefits) :
          benefits[k].frequency = "EVERY_X_DAYS" /\ ~Truthy(benefits[k].custom_value)) =>
         projection.monthlyBenefits = TableSum(benefits)
    /\ projection.monthlyFixedCosts.d # 0
    /\ projection.monthlyBenefits.d # 0

\* C14: the monthly normalization is linear in the amount: for every
\* frequency and customValue the monthly value of 2*a is twice the monthly
\* value of a, and the monthly value of 0 is 0.
C14_LinearInAmount ==
  Mounted =>
    /\ LET twice == monthlyFixedCosts(Doubled(recurringBills))
       IN IsRatio(twice, 2 * projection.monthlyFixedCosts.n, projection.monthlyFixedCosts.d)
    /\ LET twice == monthlyBenefits(Doubled(benefits))
       IN IsRatio(twice, 2 * projection.monthlyBenefits.n, projection.monthlyBenefits.d)
    /\ monthlyFixedCosts(Zeroed(recurringBills)) = Number(0)
    /\ monthlyBenefits(Zeroed(benefits)) = Number(0)

C14_Witness ==
  /\ queries.recurringBills = "success"
  /\ queries.benefits = "success"
  /\ recurringBills = <<[amount |-> 1000, frequency |-> "FORTNIGHTLY", custom_value |-> Undefined]>>
  /\ benefits = <<[amount |-> 120, frequency |-> "EVERY_X_DAYS", custom_value |-> Undefined]>>
  /\ projection.monthlyFixedCosts.d = 3

C16_SavingsRunningSum ==
  Mounted =>
    \A k \in 1..Len(Points) :
      LET I == Points[k].Income
          E == Points[k].Expenses
          S == Points[k].Savings
          P == IF k = 1 THEN Number(0) ELSE Points[k - 1].Savings
          net == Minus(I, E)
      IN /\ net.d # 0
         /\ IsRatio(S, k * net.n, net.d)
         /\ S = Plus(P, net)

C16_Witness ==
  /\ queries.benefits = "success"
  /\ benefits = <<[amount |-> 120, frequency |-> "YEARLY", custom_value |-> Undefined]>>
  /\ queries.recurringBills = "pending"
  /\ queries.expenses = "pending"
  /\ Len(Points) = 6
  /\ Points[1].Savings = Number(510)
  /\ Points[6].Savings = Number(3060)

\* C17: the projection has exactly 6 points and every point has the same
\* Income, the sum of the monthly values of all benefits plus 2000.
C17_SixPointsIncome ==
  Mounted =>
    /\ Len(Points) = 6
    /\ \A k \in 1..Len(Points) :
         /\ Points[k].Income.d # 0
         /\ Points[k].Income = Plus(TableSum(benefits), Number(2000))

C19_OneBillExample ==
  (Mounted /\ Len(recurringBills) = 1 /\ expenses = <<>> /\ benefits = <<>>
     /\ IsRatio(Bill_monthlyVal(recurringBills[1]), 1000, 1)) =>
    /\ Len(Points) = 6
    /\ \A k \in 1..Len(Points) :
         /\ Points[k].Expenses = Number(1000)
         /\ Points[k].Savings = Number((2000 - 1000) * k)

C19_Witness ==
  /\ queries.recurringBills = "success"
  /\ queries.expenses = "success"
  /\ queries.benefits = "success"
  /\ recurringBills = <<[amount |-> 1000, frequency |-> "SPECIFIC_DAY", custom_value |-> Undefined]>>
  /\ expenses = <<>>
  /\ benefits = <<>>
  /\ Len(Points) = 6
  /\ Points[6].Savings = Number(6000)

\* C20: the projection never fails: for any combination of empty or
\* non-empty lists it has 6 points with finite Income, Expenses and Savings,
\* and with all three lists empty every point has Income 2000, Expenses 1500
\* and Savings 500 * (i + 1).
C20_AlwaysSixFinitePoints ==
  Mounted =>
    /\ Len(Points) = 6
    /\ \A k \in 1..Len(Points) :
         /\ Points[k].Income.d # 0
         /\ Points[k].Expenses.d # 0
         /\ Points[k].Savings.d # 0
    /\ (expenses = <<>> /\ benefits = <<>> /\ recurringBills = <<>>) =>
         \A k \in 1..Len(Points) :
           /\ Points[k].Income = Number(2000)
           /\ Points[k].Expenses = Number(1500)
           /\ Points[k].Savings = Number(500 * k)

C20_Witness ==
  /\ queries.recurringBills = "success"
  /\ queries.expenses = "success"
  /\ queries.benefits = "success"
  /\ recurringBills = <<[amount |-> 1000, frequency |-> "EVERY_X_DAYS", custom_value |-> Num(0)]>>
  /\ expenses = <<>>
  /\ benefits = <<[amount |-> 120, frequency |-> "EVERY_X_DAYS", custom_value |-> Undefined]>>
  /\ Len(Points) = 6
  /\ Points[1].Income.d # 0
  /\ Points[6].Savings.d # 0

C21_Step ==
  (/\ Mounted
   /\ expenses' = expenses
   /\ benefits' = benefits
   /\ recurringBills' = recurringBills) => projection'.data = projection.data

\* C21: the projection is a pure function of its inputs: two computations
\* with identical benefits, recurring bills and historical expenses produce
\* identical output sequences, month labels included, whenever they are run
\* (the clock does not influence the result).
C21_PureOfInputs == [][C21_Step]_vars

\* The calendar month k months after the month of the date dt.
MonthAfter(dt, k) ==
  [y |-> (MonthIndex(dt) + k) \div 12, m |-> (MonthIndex(dt) + k) % 12]

\* C22: the month label of projection point i is the calendar month i
\* months after the current month, for every current day-of-month including
\* the 29th-31st: 6 consecutive calendar months starting with the current
\* one, none skipped and none repeated.
C22_ConsecutiveMonthLabels ==
  Mounted =>
    /\ Len(Points) = 6
    /\ \A k \in 1..Len(Points) : Points[k].month = MonthAfter(now, k - 1)
    /\ \A k \in 1..(Len(Points) - 1) :
         MonthIndex(Points[k + 1].month) = MonthIndex(Points[k].month) + 1

C22_Witness ==
  /\ queries.expenses = "success"
  /\ now.d = 31
  /\ now.m = 0
  /\ Len(Points) = 6
  /\ Points[1].month = [y |-> now.y, m |-> 0]
  /\ Points[2].month = [y |-> now.y, m |-> 1]
  /\ Points[6].month = [y |-> now.y, m |-> 5]

\* C23: the three copies of the occurrence generator agree: for every
\* (anchor, frequency, customValue, count) getNextDates of Benefits,
\* getNextDates of Expenses and getFutureDates of Payday return the same
\* sequence, so the default 3-date preview of a benefit or bill is the first
\* 3 dates of the default 4-date payday preview of the same anchor and policy.
C23_GeneratorCopiesAgree ==
  Returned =>
    /\ \A q \in Pages : Result = GetDates(q, dateStr, freq, customVal, count)
    /\ (page # "Payday" /\ count = DefaultCount(page)) =>
         Result = SubSeq(GetDates("Payday", dateStr, freq, customVal, DefaultCount("Payday")),
                         1, DefaultCount(page))
    /\ (page = "Payday" /\ count = DefaultCount("Payday")) =>
         \A q \in Pages \ {"Payday"} :
           SubSeq(Result, 1, DefaultCount(q))
             = GetDates(q, dateStr, freq, customVal, DefaultCount(q))

C23_Witness ==
  /\ Returned
  /\ page = "Payday"
  /\ count = 4
  /\ freq = "SPECIFIC_DAY"
  /\ customVal = Num(31)
  /\ Len(dates) = 4
  /\ Result[2] # Result[1]
  /\ Result[3] # Result[2]

\* C24: the two copies of the monthly normalizer inside the projection
\* agree: for every record (amount, frequency, custom_value), custom_value
\* absent or 0 and a frequency outside the six kinds included, the monthly
\* value computed for it as a recurring bill equals the monthly value
\* computed for it as a benefit.
C24_NormalizerCopiesAgree ==
  Mounted =>
    /\ \A k \in 1..Len(recurringBills) :
         Bill_monthlyVal(recurringBills[k]) = Benefit_monthlyValue(recurringBills[k])
    /\ \A k \in 1..Len(benefits) :
         Bill_monthlyVal(benefits[k]) = Benefit_monthlyValue(benefits[k])
    /\ monthlyFixedCosts(benefits) = projection.monthlyBenefits
    /\ monthlyBenefits(recurringBills) = projection.monthlyFixedCosts

\* C25: the 'Recurring Bills' line of the Calculation Basis card reads
\* 'Active (Preferred)' exactly when the projected expense was computed with
\* the fixed-bills formula (monthlyFixedCosts + 0.5 * avgHistoricalExpense),
\* and 'None (Using History)' exactly when it was computed from history or
\* the fallback constant.
C25_BasisLabelMatchesFormula ==
  Mounted =>
    LET label == Projections_recurringBillsBasis(recurringBills)
        fixedFormula ==
          /\ Positive(projection.monthlyFixedCosts)
          /\ projection.projectedMonthlyExpense
               = Plus(projection.monthlyFixedCosts, Times(projection.avgHistoryExpense, Half))
    IN /\ label = "Active (Preferred)" <=> fixedFormula
       /\ label = "None (Using History)" <=> ~fixedFormula

\* Every amount of the state is non-negative and every EVERY_X_DAYS custom
\* value is >= 1.
NonNegativeInputs ==
  /\ \A k \in 1..Len(expenses) : expenses[k].amount >= 0
  /\ \A k \in 1..Len(benefits) :
       /\ benefits[k].amount >= 0
       /\ benefits[k].frequency = "EVERY_X_DAYS" =>
            (benefits[k].custom_value # Undefined /\ benefits[k].custom_value[1] >= 1)
  /\ \A k \in 1..Len(recurringBills) :
       /\ recurringBills[k].amount >= 0
       /\ recurringBills[k].frequency = "EVERY_X_DAYS" =>
            (recurringBills[k].custom_value # Undefined /\ recurringBills[k].custom_value[1] >= 1)

\* a >= b for two finite numbers.
AtLeast(a, b) == a.d # 0 /\ b.d # 0 /\ Minus(a, b).n >= 0

\* C26: for any inputs whose amounts are all non-negative and whose
\* EVERY_X_DAYS custom values are >= 1, every projection point has
\* Income >= 2000 and Expenses > 0, and Expenses is never smaller than the
\* summed monthly value of the recurring bills.
C26_NonNegativeBounds ==
  (Mounted /\ NonNegativeInputs) =>
    \A k \in 1..Len(Points) :
      /\ AtLeast(Points[k].Income, Number(2000))
      /\ Positive(Points[k].Expenses)
      /\ AtLeast(Points[k].Expenses, TableSum(recurringBills))

C26_Witness ==
  /\ NonNegativeInputs
  /\ queries = [expenses |-> "success", benefits |-> "success", recurringBills |-> "success"]
  /\ recurringBills = <<[amount |-> 1000, frequency |-> "EVERY_X_DAYS", custom_value |-> Num(28)]>>
  /\ benefits = <<[amount |-> 120, frequency |-> "EVERY_X_DAYS", custom_value |-> Num(28)]>>
  /\ expenses = <<[amount |-> 901]>>
  /\ Len(Points) = 6
  /\ Positive(Points[1].Expenses)
  /\ Points[1].Expenses # TableSum(recurringBills)

\* C29: fetchRecurringExpenses returns an empty list, without throwing,
\* when the store reports that the table does not exist (error code 42P01),
\* throws for every other error, and returns the stored rows otherwise; with
\* the table missing the projection is still produced, using the no-bills
\* branch.
C29_MissingTableGivesNoBills ==
  queries.recurringBills \in {"success", "error"} =>
    /\ response.error = "42P01" =>
         /\ queries.recurringBills = "success"
         /\ recurringBills = <<>>
         /\ Len(Points) = 6
         /\ projection.monthlyFixedCosts = Number(0)
         /\ \A k \in 1..Len(Points) :
              /\ Points[k].Expenses.d # 0
              /\ Points[k].Expenses =
                   IF projection.avgHistoryExpense.n > 0
                     THEN projection.avgHistoryExpense ELSE Number(1500)
    /\ response.error \notin {"null", "42P01"} => queries.recurringBills = "error"
    /\ response.error = "null" =>
         /\ queries.recurringBills = "success"
         /\ recurringBills = response.data

C29_Witness ==
  /\ response.error = "42P01"
  /\ queries.recurringBills = "success"
  /\ queries.expenses = "success"
  /\ expenses = <<[amount |-> 901]>>
  /\ recurringBills = <<>>
  /\ Len(Points) = 6
  /\ Points[1].Expenses = Fraction(901, 3)

RECURSIVE SumOf(_)
SumOf(amounts) == IF amounts = <<>> THEN 0 ELSE Head(amounts) + SumOf(Tail(amounts))

\* C27: adding funds to a goal is cumulative: after any sequence of clicks
\* on the '+ $50' and '+ $100' buttons of one goal, clicks made before the
\* refetch triggered by an earlier click has completed included, the stored
\* current_amount equals its initial value plus the sum of the clicked
\* amounts.
C27_AddFundsCumulative ==
  (clicks # <<>> /\ updates = {}) =>
    goal.current_amount = created.current_amount + SumOf(clicks)

\* The pages the claim calls protected.
ProtectedPages ==
  {"Dashboard", "Assets", "Debts", "Goals", "Income", "Expenses", "Benefits", "Payday",
   "Projections", "Reports"}

ProtectedPaths ==
  {"/", "/assets", "/debts", "/goals", "/income", "/expenses", "/benefits", "/payday",
   "/projections", "/reports"}

\* C28: in every reachable state of the router a protected page (dashboard,
\* assets, debts, goals, income, expenses, benefits, payday, projections,
\* reports) is rendered only when auth loading is false and the user is
\* non-null; with no user the route redirects to /login, and a signed-in
\* user on /login or /register is redirected to /.
C28_ProtectedPagesGuarded ==
  history # <<>> =>
    /\ (screen.kind = "page" /\ screen.name \in ProtectedPages) =>
         (~loading /\ user # "null")
    /\ (~loading /\ user = "null" /\ Location(history) \in ProtectedPaths) =>
         screen = [kind |-> "navigate", name |-> "/login"]
    /\ (~loading /\ user # "null" /\ Location(history) \in {"/login", "/register"}) =>
         screen = [kind |-> "navigate", name |-> "/"]

C28_Witness ==
  /\ ~loading
  /\ user = "null"
  /\ history = <<"/goals", "/login">>
  /\ screen = [kind |-> "page", name |-> "Login"]

====
